---- MODULE Spec2Model ----
(***************************************************************************)
(* Model of thermostat.py: the hysteretic mode classifier (class           *)
(* Thermostat).  Thermostat.__init__ builds a table of temperature ranges, *)
(* each a pair (forward test, reverse test); Thermostat.mode keeps the     *)
(* reverse test of the range it is in and rescans the table when that test *)
(* fails.                                                                  *)
(***************************************************************************)
EXTENDS Integers, Sequences, FiniteSets, TLC

\* ------------------------------------------------------------------ bounds

\* Threshold temperatures of a generated configuration are drawn from 1..MaxKey.
MaxKey == 3

\* forward_hysteresis and reverse_hysteresis are drawn from 0..MaxHyst.
MaxHyst == 1

\* Readings range from Margin below (tmin - rhyst) to Margin above (tmax + fhyst).
Margin == 2

\* ------------------------------------------------------------ Python values

\* Python's None (the default of `unchanged`, and the mode of `fail`).
None == "None"

\* A caller-chosen `unchanged` sentinel other than None.
Sentinel == "unchanged"

\* self.__last before the first call: reading it raises AttributeError.
NoLast == "AttributeError"

\* `next()` on an exhausted generator.
StopIteration == "StopIteration"

\* The result of a call that has not been made.
NoCall == "NoCall"

\* The mode labels the voltage switch knows (VoltageSwitch.__switch), and one
\* more setting name that it does not know.
Labels == <<"0v", "5v", "12v", "aux">>

\* No temperature recorded.
NoT == 0 - 1000

VARIABLES
    kwargs,       \* the (label, temperature) settings handed to Thermostat()
    fhyst,        \* forward_hysteresis
    rhyst,        \* reverse_hysteresis
    status,       \* "new" before __init__, then "ok" or "error" (it raised)
    tmap,         \* self.__tmap: temperature -> label
    ranges,       \* self.__ranges, in insertion order
    hrange,       \* self.__hrange: index into ranges, 0 for `lambda t: fail`
    last,         \* self.__last, NoLast while the attribute does not exist
    temperature,  \* arguments of the latest call of mode()
    changes,
    unchanged,
    newmode,      \* the candidate of the latest call
    mode,         \* what the latest call returned
    called,       \* mode() has been called
    same,         \* the latest call repeated the temperature of the call before
    sweep,        \* position of the call history in a unit-step sweep
    upT,          \* per range: the reading at which an ascending sweep entered it
    width,        \* dead zone measured when a descending sweep left a range
    step          \* progress through the example readings, -1 when off them

\* The device session (class Win32HID), the machine around it and the poll
\* loop that main() starts (mainloop, or TrayThermostat.run).
VARIABLES
    devs,         \* the interfaces that can be plugged into the machine
    plugged,      \* the interfaces present on the machine
    msgs,         \* WM_DEVICECHANGE messages posted and not yet dispatched
    flag,         \* the threading.Event that Win32HID is: set or clear
    path,         \* self.__path
    cb,           \* the __devicechange call in progress, if any
    loop,         \* the poll loop main() started: "mainloop" or "run"
    pc,           \* where the poll loop is
    vs,           \* the VoltageSwitch handle the loop holds, if any
    nopen,        \* number of device handles that are open
    loopchanges,  \* the local `changes` of the loop
    traymode,     \* TrayThermostat.__mode
    sent,         \* what the latest poll asked of the switch
    evals,        \* evaluations in the session so far (0, 1, or 2 for more)
    failure,      \* what ended the latest cycle, "none" once it is handled
    lastnote,     \* the latest matching notification handled by __devicechange
    owner,        \* the path that was cached when the event was last set
    reattached,   \* "yes" once a matching detach and then attach was handled,
                  \* "opened" once a handle was opened after that, "no" once
                  \* that handle saw an evaluation with changes=False
    missed,       \* an evaluation with changes=True was made on a handle from
                  \* before the detach while reattached was not "no"
    lingered,     \* a poll was made with the event clear on a handle that had
                  \* stopped working, and the inner loop went on
    ignored       \* the state of the event ("set" or "clear") when
                  \* __devicechange last handled the arrival or removal of an
                  \* interface that is not the configured one; "none" before

w32Vars == <<devs, plugged, msgs, flag, path, cb>>

loopVars == <<loop, pc, vs, nopen, loopchanges, traymode, sent, evals, failure>>

noteVars == <<lastnote, owner, reattached, missed, lingered, ignored>>

hidVars == <<w32Vars, loopVars, noteVars>>

vars == <<kwargs, fhyst, rhyst, status, tmap, ranges, hrange, last,
          temperature, changes, unchanged, newmode, mode, called, same,
          sweep, upT, width, step, hidVars>>

\* --------------------------------------------------------- Thermostat.__init__

\* fail = (None, False)
fail == <<None, FALSE>>

\* for k, v in kwargs.items(): self.__tmap[int(v)] = k
\* (a later setting with the same temperature overwrites the earlier one)
RECURSIVE BuildTmap(_, _)
BuildTmap(kw, n) ==
    IF n = 0 THEN <<>>
    ELSE LET prev == BuildTmap(kw, n - 1)
             k == kw[n].temp
         IN [x \in (DOMAIN prev) \cup {k} |->
                IF x = k THEN kw[n].label ELSE prev[x]]

\* Mutant: the constructor asks for three distinct temperatures.
TooFewOffByOne(tm) == Cardinality(DOMAIN tm) < 3

\* if len(self.__tmap.keys()) < 2: raise
TooFew(tm) == Cardinality(DOMAIN tm) < 2

\* keys = sorted(self.__tmap.keys())
RECURSIVE Sorted(_)
Sorted(S) ==
    IF S = {} THEN <<>>
    ELSE LET m == CHOOSE x \in S : \A y \in S : x <= y
         IN <<m>> \o Sorted(S \ {m})

\* The two special ranges, then middle_range(keys[i], keys[i+1]) for
\* i in range(1, len(keys)-1).  A range is kept as the values its two
\* lambdas close over: low is the key of its label, hi its upper boundary.
MakeRanges(keys) ==
    << [kind |-> "low",  low |-> keys[1],         hi |-> keys[2]],
       [kind |-> "high", low |-> keys[Len(keys)], hi |-> keys[Len(keys)]] >>
    \o [i \in 1..(Len(keys) - 2) |->
           [kind |-> "mid", low |-> keys[i + 1], hi |-> keys[i + 2]]]

\* tmin = keys[0]; t1 = keys[1]; tmax = keys[-1]: the boundaries the two
\* special ranges close over.
tmin == ranges[1].low
t1 == ranges[1].hi
tmax == ranges[2].low

\* lambda t: t < t1 + fhyst                                    (low, forward)
LowForward(t) == t < t1 + fhyst

\* ... if t < (t1 + fhyst) else fail                           (low, reverse)
LowReverse(t) == t < t1 + fhyst

\* lambda t: t >= tmax + fhyst                                 (high, forward)
HighForward(t) == t >= tmax + fhyst

\* Mutant: the high range is kept down to tmax - rhyst included.
HighReverseInclusive(t) == t >= tmax - rhyst

\* Mutant: the reverse test of the high range forgets rhyst.
HighReverseNoHyst(t) == t > tmax

\* ... if t > (tmax - rhyst) else fail                         (high, reverse)
HighReverse(t) == t > tmax - rhyst

\* Mutant: the upper boundary of a middle range is included.
MidForwardClosed(low, hi, t) == t >= low + fhyst /\ t <= hi + fhyst

\* forward = lambda t: t >= (low + fhyst) and t < (hi + fhyst)
MidForward(low, hi, t) == t >= low + fhyst /\ t < hi + fhyst

\* Mutant: the reverse test of a middle range forgets rhyst.
MidReverseNoHyst(low, hi, t) == t > low /\ t < hi + fhyst

\* ... if t > (low - rhyst) and t < (hi + fhyst) else fail     (middle, reverse)
MidReverse(low, hi, t) == t > low - rhyst /\ t < hi + fhyst

\* The key of self.__ranges: the forward (entry) test of a range.
Forward(b, t) ==
    CASE b.kind = "low"  -> LowForward(t)
      [] b.kind = "high" -> HighForward(t)
      [] b.kind = "mid"  -> MidForward(b.low, b.hi, t)

\* The value of self.__ranges: (label, True) while the range holds, else fail.
Reverse(b, t) ==
    LET holds == CASE b.kind = "low"  -> LowReverse(t)
                   [] b.kind = "high" -> HighReverse(t)
                   [] b.kind = "mid"  -> MidReverse(b.low, b.hi, t)
    IN IF holds THEN <<tmap[b.low], TRUE>> ELSE fail

\* Mutant: the range mode() is in is not kept from one call to the next.
HRangeForgotten(i, t) == fail

\* self.__hrange(temperature); index 0 is the initial `lambda t: fail`.
HRange(i, t) == IF i = 0 THEN fail ELSE Reverse(ranges[i], t)

\* next(self.__ranges[f] for f in self.__ranges.keys() if f(temperature)):
\* the first range, in insertion order, whose forward test holds; 0 when the
\* generator is exhausted.
Scan(t) ==
    LET hits == {i \in DOMAIN ranges : Forward(ranges[i], t)}
    IN IF hits = {} THEN 0 ELSE CHOOSE i \in hits : \A j \in hits : i <= j

\* Mutant: suppression ignores the `changes` flag.
SuppressAlways(l, nm, ch) == l = nm

\* self.__last == newmode and changes   (AttributeError on the first call)
Suppress(l, nm, ch) == l # NoLast /\ l = nm /\ ch

\* Mutant: the returned value is recorded instead of the candidate.
RecordReturned(nm, m) == m

\* self.__last = newmode
Record(nm, m) == nm

\* ---------------------------------------------------------- byte strings

\* A Python bytes value is a sequence of one-character strings.
Upper ==
    <<"A","B","C","D","E","F","G","H","I","J","K","L","M","N","O","P","Q",
      "R","S","T","U","V","W","X","Y","Z">>

Lower ==
    <<"a","b","c","d","e","f","g","h","i","j","k","l","m","n","o","p","q",
      "r","s","t","u","v","w","x","y","z">>

HexDigits ==
    <<"0","1","2","3","4","5","6","7","8","9","a","b","c","d","e","f">>

\* bytes.lower(), one character
lowerchar(c) ==
    IF \E k \in DOMAIN Upper : Upper[k] = c
    THEN Lower[CHOOSE k \in DOMAIN Upper : Upper[k] = c]
    ELSE c

\* bytes.lower()
lower(s) == [i \in DOMAIN s |-> lowerchar(s[i])]

\* bytes.split(sep) for a one-character separator
RECURSIVE split(_, _)
split(s, sep) ==
    IF \E i \in DOMAIN s : s[i] = sep
    THEN LET i == CHOOSE j \in DOMAIN s :
                      s[j] = sep /\ \A k \in 1..(j - 1) : s[k] # sep
         IN  <<SubSeq(s, 1, i - 1)>> \o split(SubSeq(s, i + 1, Len(s)), sep)
    ELSE <<s>>

\* sep.join(parts)
RECURSIVE join(_, _)
join(parts, sep) ==
    IF Len(parts) = 0 THEN <<>>
    ELSE IF Len(parts) = 1 THEN parts[1]
    ELSE parts[1] \o <<sep>> \o join(Tail(parts), sep)

\* bytes.startswith(prefix)
startswith(s, prefix) ==
    Len(s) >= Len(prefix) /\ SubSeq(s, 1, Len(prefix)) = prefix

\* format(y, 'x'): lower-case hexadecimal digits, most significant first
RECURSIVE hex(_)
hex(y) ==
    IF y < 16 THEN <<HexDigits[y + 1]>>
    ELSE hex(y \div 16) \o <<HexDigits[(y % 16) + 1]>>

\* left padding with "0" up to width w
RECURSIVE zfill(_, _)
zfill(s, w) == IF Len(s) >= w THEN s ELSE zfill(<<"0">> \o s, w)

\* f"{x}_{y:04x}".encode()
idformat(x, y) == x \o <<"_">> \o zfill(hex(y), 4)

\* ------------------------------------------------------------------ Win32HID

\* Win32HID.GUID_DEVINTERFACE_HID
GUID_DEVINTERFACE_HID ==
    <<"{","4","D","1","E","5","5","B","2","-","F","1","6","F","-","1","1",
      "C","F","-","8","8","C","B","-","0","0","1","1","1","1","0","0","0",
      "0","3","0","}">>

\* Win32HID.GUID_DEVINTERFACE_USB_DEVICE
GUID_DEVINTERFACE_USB_DEVICE ==
    <<"{","A","5","D","C","B","F","1","0","-","6","5","3","0","-","1","1",
      "D","2","-","9","0","1","F","-","0","0","C","0","4","F","B","9","5",
      "1","E","D","}">>

\* config['microcontroller']: "vid": "0x16C0", "pid": "0x0486"
vid == 5824
pid == 1158

\* self.__path = None: no path cached (None and b'' are both false)
NoPath == <<>>

\* self.__ids
ids == <<idformat(<<"v","i","d">>, vid), idformat(<<"p","i","d">>, pid)>>

\* b'mi_00'
mi_00 == <<"m","i","_","0","0">>

\* Mutant: the vendor and product ids are not looked for.
IdsIgnored(idl) == TRUE

\* all(id in ids for id in self.__ids)
IdsPresent(idl) == \A i \in DOMAIN ids : \E j \in DOMAIN idl : idl[j] = ids[i]

\* Mutant: the interface index is not looked at.
AnyInterface(idl) == TRUE

\* all(id == b'mi_00' for id in ids if id.startswith(b'mi_'))
InterfaceZero(idl) ==
    \A j \in DOMAIN idl : startswith(idl[j], <<"m","i","_">>) => idl[j] = mi_00

\* Win32HID.__matchingdevice(name) with self.__path = cached: whether the
\* name is accepted, and self.__path afterwards.
matchingdevice(cached, name) ==
    LET p == lower(name)
        chunks == split(p, "#")
    IN  IF cached # NoPath /\ cached = p
        THEN [ok |-> TRUE, path |-> cached]
        ELSE IF /\ Len(chunks) > 2
                /\ chunks[Len(chunks)] = lower(GUID_DEVINTERFACE_HID)
                /\ IdsPresent(split(chunks[2], "&"))
                /\ InterfaceZero(split(chunks[2], "&"))
             THEN [ok |-> TRUE, path |-> p]
             ELSE [ok |-> FALSE, path |-> cached]

\* ---------------------------------------------- device interface names

\* The pieces of the interface names Windows reports, as in the comment of
\* __matchingdevice:
\*   \\?\HID#VID_16C0&PID_0486&MI_01#7&2d928156&0&0000#{4d1e55b2-...}
Prefix == <<"\\","\\","?","\\","H","I","D">>

VID_16C0 == <<"V","I","D","_","1","6","C","0">>
VID_16C1 == <<"V","I","D","_","1","6","C","1">>
PID_0486 == <<"P","I","D","_","0","4","8","6">>
PID_0487 == <<"P","I","D","_","0","4","8","7">>
MI_00 == <<"M","I","_","0","0">>
MI_01 == <<"M","I","_","0","1">>
MI_02 == <<"M","I","_","0","2">>
Inst7 == <<"7","&","2","d","9","&","0","&","0","0","0","0">>
Inst8 == <<"8","&","1","f","3","&","0","&","0","0","0","0">>

\* No such piece in the name.
Missing == <<>>

\* The non-empty pieces of a sequence.
RECURSIVE present(_)
present(s) ==
    IF s = <<>> THEN <<>>
    ELSE IF Head(s) = Missing THEN present(Tail(s))
    ELSE <<Head(s)>> \o present(Tail(s))

\* The name of an interface with the given pieces.  A full name has the
\* prefix, the id segment, the instance and the interface class GUID; a
\* short one has no prefix and no instance.
RawName(d) ==
    LET idseg == join(present(<<d.vid, d.pid, d.mi>>), "&")
    IN  IF d.full THEN join(present(<<Prefix, idseg, d.inst, d.guid>>), "#")
        ELSE join(present(<<idseg, d.guid>>), "#")

\* The interface names a WM_DEVICECHANGE broadcast may carry.
Interfaces ==
    [vid : {VID_16C0, VID_16C1}, pid : {PID_0486, PID_0487},
     mi : {Missing, MI_00, MI_01, MI_02}, inst : {Inst7},
     guid : {GUID_DEVINTERFACE_HID, lower(GUID_DEVINTERFACE_HID),
             GUID_DEVINTERFACE_USB_DEVICE, Missing},
     full : BOOLEAN]

\* wParam of WM_DEVICECHANGE
DBT_DEVICEARRIVAL == "DBT_DEVICEARRIVAL"
DBT_DEVICEREMOVECOMPLETE == "DBT_DEVICEREMOVECOMPLETE"
DBT_DEVICEQUERYREMOVE == "DBT_DEVICEQUERYREMOVE"

\* info.devicetype
DBT_DEVTYP_DEVICEINTERFACE == "DBT_DEVTYP_DEVICEINTERFACE"
DBT_DEVTYP_VOLUME == "DBT_DEVTYP_VOLUME"

\* ------------------------------------------------------------------ inputs

\* main() builds Thermostat(**config['thermostat']): the labels are the keys
\* of one dictionary, so they are pairwise distinct; the i-th setting
\* carries the i-th label.  Labels are opaque to the Thermostat, so the
\* settings are listed by ascending temperature; equal temperatures (a later
\* setting overwriting an earlier one) are included.
Settings ==
    UNION {{f \in [1..n -> 1..MaxKey] : \A i \in 1..(n - 1) : f[i] <= f[i + 1]}
           : n \in 0..Len(Labels)}

KwargsOf(f) == [i \in DOMAIN f |-> [label |-> Labels[i], temp |-> f[i]]]

\* The readings fed to mode(): from below every boundary shifted down by the
\* reverse hysteresis to above every boundary shifted up by the forward one.
Temps == (tmin - rhyst - Margin)..(tmax + fhyst + Margin)

\* The readings of the worked example.
Readings == <<30, 50, 62, 58, 56, 54>>

\* State of a Thermostat object before __init__ has run.
Blank ==
    /\ status = "new"
    /\ tmap = <<>>
    /\ ranges = <<>>
    /\ hrange = 0
    /\ last = NoLast
    /\ temperature = 0
    /\ changes = FALSE
    /\ unchanged = None
    /\ newmode = NoCall
    /\ mode = NoCall
    /\ called = FALSE
    /\ same = FALSE
    /\ sweep = "fresh"
    /\ upT = <<>>
    /\ width = NoT
    /\ step = 0

\* No Win32HID object: a Thermostat on its own.
NoSession ==
    /\ devs = {}
    /\ plugged = {}
    /\ msgs = <<>>
    /\ flag = FALSE
    /\ path = NoPath
    /\ cb = <<>>
    /\ loop = "none"
    /\ pc = "returned"
    /\ vs = <<>>
    /\ nopen = 0
    /\ loopchanges = FALSE
    /\ traymode = "Automatic"
    /\ sent = "nothing"
    /\ evals = 0
    /\ failure = "none"
    /\ lastnote = "none"
    /\ owner = NoPath
    /\ reattached = "no"
    /\ missed = FALSE
    /\ lingered = FALSE
    /\ ignored = "none"

Init ==
    /\ kwargs \in {KwargsOf(f) : f \in Settings}
    /\ fhyst \in 0..MaxHyst
    /\ rhyst \in 0..MaxHyst
    /\ Blank
    /\ NoSession

\* The default configuration written by verify_config().
InitExample ==
    /\ kwargs = << [label |-> "12v", temp |-> 60],
                   [label |-> "5v",  temp |-> 45],
                   [label |-> "0v",  temp |-> 0] >>
    /\ fhyst = 0
    /\ rhyst = 5
    /\ Blank
    /\ NoSession

\* ----------------------------------------------------------------- actions

\* Thermostat.__init__(**kwargs)
ThermostatInit ==
    /\ status = "new"
    /\ LET tm == BuildTmap(kwargs, Len(kwargs))
       IN IF TooFew(tm)
          THEN /\ status' = "error"
               /\ UNCHANGED <<tmap, ranges, upT>>
          ELSE /\ status' = "ok"
               /\ tmap' = tm
               /\ ranges' = MakeRanges(Sorted(DOMAIN tm))
               /\ upT' = [i \in 1..Cardinality(DOMAIN tm) |-> NoT]
    /\ UNCHANGED <<kwargs, fhyst, rhyst, hrange, last, temperature, changes,
                   unchanged, newmode, mode, called, same, sweep, width, step,
                   hidVars>>

\* Bookkeeping of the call history (not program state).
History(t, ch, hr) ==
    /\ called' = TRUE
    /\ same' = (called /\ t = temperature)
    /\ sweep' = CASE sweep = "fresh" ->
                       IF ch /\ t < tmin THEN "start" ELSE "off"
                  [] sweep \in {"start", "up"} ->
                       IF ch /\ t = temperature + 1 THEN "up"
                       ELSE IF ch /\ t = temperature - 1 THEN "down"
                       ELSE "off"
                  [] sweep = "down" ->
                       IF ch /\ t = temperature - 1 THEN "down" ELSE "off"
                  [] OTHER -> "off"
    /\ upT' = IF sweep' = "off" THEN [i \in DOMAIN upT |-> NoT]
              ELSE IF sweep' = "up" /\ hrange # 0 /\ hr # hrange
                   THEN [upT EXCEPT ![hr] = t]
                   ELSE upT
    /\ width' = IF sweep' = "down" /\ hrange # 0 /\ hr # hrange
                   /\ upT[hrange] # NoT
                THEN upT[hrange] - t
                ELSE NoT
    /\ step' = IF step >= 0 /\ step < Len(Readings) /\ ch
                  /\ t = Readings[step + 1]
               THEN step + 1 ELSE -1

\* Thermostat.mode(temperature, changes, unchanged)
Mode(t, ch, un) ==
    /\ status = "ok"
    /\ temperature' = t
    /\ changes' = ch
    /\ unchanged' = un
    /\ LET first == HRange(hrange, t)
           found == Scan(t)
       IN IF ~first[2] /\ found = 0
          THEN \* next() raises StopIteration: nothing is assigned
               /\ newmode' = first[1]
               /\ mode' = StopIteration
               /\ UNCHANGED <<hrange, last>>
               /\ History(t, ch, hrange)
          ELSE LET hr == IF first[2] THEN hrange ELSE found
                   nm == IF first[2] THEN first[1] ELSE HRange(hr, t)[1]
                   m  == IF Suppress(last, nm, ch) THEN un ELSE nm
               IN /\ hrange' = hr
                  /\ newmode' = nm
                  /\ mode' = m
                  /\ last' = Record(nm, m)
                  /\ History(t, ch, hr)
    /\ UNCHANGED <<kwargs, fhyst, rhyst, status, tmap, ranges>>

\* A caller (mainloop, TrayThermostat.run) polls the sensor and calls mode().
Call ==
    /\ status = "ok"
    /\ \E t \in Temps, ch \in BOOLEAN, un \in {None, Sentinel} : Mode(t, ch, un)
    /\ UNCHANGED hidVars

Next == ThermostatInit \/ Call

Spec == Init /\ [][Next]_vars

SpecExample == InitExample /\ [][Next]_vars

\* ------------------------------------------------------- Win32HID: actions

\* The Thermostat that main() built from the default configuration.
thVars == <<kwargs, fhyst, rhyst, status, tmap, ranges, hrange, last,
            temperature, changes, unchanged, newmode, mode, called, same,
            sweep, upT, width, step>>

\* The configured identity: the vendor and product of config['microcontroller']
\* and, on a device with several interfaces, interface 0.
Identity(d) ==
    /\ d.vid = VID_16C0
    /\ d.pid = PID_0486
    /\ d.mi \in {Missing, MI_00}

\* Message m is the arrival or the removal of an interface that is not the
\* configured one.
Foreign(m) ==
    /\ m.devicetype = DBT_DEVTYP_DEVICEINTERFACE
    /\ m.wParam \in {DBT_DEVICEARRIVAL, DBT_DEVICEREMOVECOMPLETE}
    /\ ~Identity(m.dev)

\* Windows posts a WM_DEVICECHANGE message to the window of Win32HID.
Post(w, ty, d) ==
    msgs' = Append(msgs, [wParam |-> w, devicetype |-> ty, dev |-> d])

\* Win32HID.__devicechange, up to the return of __matchingdevice: the
\* message is unpacked and the name compared, which may write self.__path.
\* The call ends here unless clear() or set() is still to be called.
DeviceChangeMatch ==
    /\ cb = <<>>
    /\ msgs # <<>>
    /\ msgs' = Tail(msgs)
    /\ LET m == Head(msgs)
           r == matchingdevice(path, RawName(m.dev))
       IN  IF m.devicetype # DBT_DEVTYP_DEVICEINTERFACE
           THEN UNCHANGED <<path, cb>>
           ELSE /\ path' = r.path
                /\ cb' = IF r.ok /\ m.wParam \in {DBT_DEVICEREMOVECOMPLETE,
                                                  DBT_DEVICEARRIVAL}
                         THEN <<m>> ELSE <<>>
    /\ ignored' = IF Foreign(Head(msgs)) THEN (IF flag THEN "set" ELSE "clear")
                  ELSE ignored
    /\ UNCHANGED <<devs, plugged, flag, loopVars, lastnote, owner, reattached,
                   missed, lingered>>
    /\ UNCHANGED thVars

\* Win32HID.__devicechange, the rest: self.clear() or self.set().
DeviceChangeFlag ==
    /\ cb # <<>>
    /\ flag' = (cb[1].wParam = DBT_DEVICEARRIVAL)
    /\ cb' = <<>>
    /\ IF cb[1].wParam = DBT_DEVICEARRIVAL
       THEN /\ lastnote' = "attach"
            /\ owner' = path
            /\ reattached' = IF lastnote = "detach" THEN "yes" ELSE reattached
       ELSE /\ lastnote' = "detach"
            /\ UNCHANGED <<owner, reattached>>
    /\ UNCHANGED <<devs, plugged, msgs, path, loopVars, missed, lingered,
                   ignored>>
    /\ UNCHANGED thVars

\* ----------------------------------------------------------- the machine

\* Bound on the WM_DEVICECHANGE messages waiting in the queue.
MaxMsgs == 1

\* The raw HID interface of the switch, the other interface of the same
\* unit, and the raw HID interface of a second unit of the same model.
Unit == [vid |-> VID_16C0, pid |-> PID_0486, mi |-> MI_00, inst |-> Inst7,
         guid |-> GUID_DEVINTERFACE_HID, full |-> TRUE]
Sibling == [Unit EXCEPT !.mi = MI_01]
SecondUnit == [Unit EXCEPT !.inst = Inst8]

Devs == {Unit, Sibling, SecondUnit}

\* hid.Device(path=p) succeeds when an interface with that path is present.
CanOpen(p) == \E d \in plugged : lower(RawName(d)) = p

\* An interface is plugged in: it can be opened from now on, and Windows
\* posts its arrival.
Arrive ==
    /\ Len(msgs) < MaxMsgs
    /\ \E d \in devs \ plugged :
          /\ plugged' = plugged \cup {d}
          /\ Post(DBT_DEVICEARRIVAL, DBT_DEVTYP_DEVICEINTERFACE, d)
    /\ UNCHANGED <<devs, flag, path, cb, loopVars, noteVars>>
    /\ UNCHANGED thVars

\* An interface is unplugged: a handle open on it stops working, and
\* Windows posts its removal.
Remove ==
    /\ Len(msgs) < MaxMsgs
    /\ \E d \in plugged :
          /\ plugged' = plugged \ {d}
          /\ Post(DBT_DEVICEREMOVECOMPLETE, DBT_DEVTYP_DEVICEINTERFACE, d)
          /\ vs' = IF vs # <<>> /\ vs[1].path = lower(RawName(d))
                   THEN <<[vs[1] EXCEPT !.valid = FALSE]>> ELSE vs
    /\ UNCHANGED <<devs, flag, path, cb, loop, pc, nopen, loopchanges, traymode,
                   sent, evals, failure, noteVars>>
    /\ UNCHANGED thVars

\* --------------------------------------------------------- the poll loops

\* The keys of VoltageSwitch.__switch that send a command.
SwitchLabels == {"12v", "5v", "0v"}

\* TrayThermostat.__mode: the menu entries the user picks, and the label of
\* the command each manual mode sends.
TrayModes == {"Automatic", "V12"}
ManualLabel(m) == CASE m = "V12" -> "12v" [] m = "V5" -> "5v" [] m = "V0" -> "0v"

\* Mutant: leaving the `with` block leaves the device open.
Leak(n) == n

\* hid.Device.__exit__: leaving the `with` block closes the device.
Close(n) == n - 1

\* Mutant: the exception is not caught and ends the thread of the loop.
Uncaught(to, why) ==
    /\ vs' = <<>>
    /\ nopen' = IF vs # <<>> THEN Close(nopen) ELSE nopen
    /\ pc' = "returned"
    /\ failure' = why

\* The cycle ends (exception, break or return); a `with` block that was
\* entered is left on the way.
Leave(to, why) ==
    /\ vs' = <<>>
    /\ nopen' = IF vs # <<>> THEN Close(nopen) ELSE nopen
    /\ pc' = to
    /\ failure' = why

\* Win32HID.device(timeout): self.wait(timeout).  mainloop passes no timeout
\* and blocks while the event is clear; run() passes 0.2 s and gets
\* Exception("Device not attached") when the event stays clear.
DeviceWait ==
    /\ pc = "device"
    /\ IF flag THEN pc' = "open" /\ UNCHANGED failure
       ELSE loop = "run" /\ pc' = "backoff" /\ failure' = "wait"
    /\ UNCHANGED <<w32Vars, loop, vs, nopen, loopchanges, traymode, sent,
                   evals, noteVars>>
    /\ UNCHANGED thVars

\* Win32HID.device(timeout): return self.__dev(path=self.__path), and the
\* `with` block is entered: changes = False.
DeviceOpen ==
    /\ pc = "open"
    /\ IF CanOpen(path)
       THEN /\ vs' = <<[path |-> path, valid |-> TRUE]>>
            /\ nopen' = nopen + 1
            /\ loopchanges' = FALSE
            /\ pc' = "poll"
            /\ evals' = 0
            /\ reattached' = IF reattached = "yes" THEN "opened" ELSE reattached
            /\ UNCHANGED failure
       ELSE /\ pc' = "backoff"
            /\ failure' = "open"
            /\ UNCHANGED <<vs, nopen, loopchanges, evals, reattached>>
    /\ UNCHANGED <<w32Vars, loop, traymode, sent, lastnote, owner, missed,
                   lingered, ignored>>
    /\ UNCHANGED thVars

\* vs[thermostat.mode(sensor.reading(), changes)]() and what follows it in
\* the loop body, for a reading t.
Evaluate(t) ==
    /\ Mode(t, loopchanges, None)
    /\ evals' = IF evals = 0 THEN 1 ELSE 2
    /\ missed' = (missed \/ (loopchanges /\ reattached # "no" /\ ~vs[1].valid))
    /\ reattached' = IF ~loopchanges /\ reattached = "opened"
                     THEN "no" ELSE reattached
    /\ IF mode' \notin SwitchLabels \cup {None}
       THEN \* KeyError
            /\ Leave("backoff", "key")
            /\ sent' = "nothing"
            /\ UNCHANGED loopchanges
       ELSE IF mode' = None
       THEN \* lambda *args: None
            /\ sent' = "nothing"
            /\ IF loop = "run" /\ ~flag
               THEN Leave("backoff", "break") /\ UNCHANGED loopchanges
               ELSE loopchanges' = TRUE /\ UNCHANGED <<pc, vs, nopen, failure>>
       ELSE \* self.write(buffer)
            /\ sent' = mode'
            /\ IF vs[1].valid
               THEN loopchanges' = TRUE /\ UNCHANGED <<pc, vs, nopen, failure>>
               ELSE Leave("backoff", "write") /\ UNCHANGED loopchanges
    /\ lingered' = (lingered \/ (~flag /\ ~vs[1].valid /\ pc' = "poll"))

\* The readings of the sensor while the loop runs: the boundaries of the
\* configuration and what lies between them.
LoopTemps == tmin..tmax

\* One pass of the inner loop of mainloop, or of run() in Automatic mode.
Poll ==
    /\ pc = "poll"
    /\ loop = "mainloop" \/ traymode = "Automatic"
    /\ \E t \in LoopTemps : Evaluate(t)
    /\ UNCHANGED <<w32Vars, loop, traymode, lastnote, owner, ignored>>

\* sensor.reading() raises.
SensorFails ==
    /\ pc = "poll"
    /\ loop = "mainloop" \/ traymode = "Automatic"
    /\ Leave("backoff", "sensor")
    /\ UNCHANGED <<w32Vars, loop, loopchanges, traymode, sent, evals, noteVars>>
    /\ UNCHANGED thVars

\* One pass of the inner loop of run() in a manual mode: vs.set12v() etc.
PollManual ==
    /\ pc = "poll"
    /\ loop = "run" /\ traymode # "Automatic"
    /\ sent' = ManualLabel(traymode)
    /\ IF vs[1].valid
       THEN loopchanges' = FALSE /\ UNCHANGED <<pc, vs, nopen, failure>>
       ELSE Leave("backoff", "write") /\ UNCHANGED loopchanges
    /\ UNCHANGED <<w32Vars, loop, traymode, evals, noteVars>>
    /\ UNCHANGED thVars

\* TrayThermostat.OnCommand, run by a message pump of run().
OnCommand ==
    /\ loop = "run"
    /\ pc \in {"device", "poll", "backoff"}
    /\ \E m \in TrayModes \ {traymode} : traymode' = m
    /\ UNCHANGED <<w32Vars, loop, pc, vs, nopen, loopchanges, sent, evals,
                   failure, noteVars>>
    /\ UNCHANGED thVars

\* A message pump of run() sees WM_QUIT: return.
Quit ==
    /\ loop = "run"
    /\ pc \in {"device", "poll", "backoff"}
    /\ Leave("returned", "none")
    /\ UNCHANGED <<w32Vars, loop, loopchanges, traymode, sent, evals, noteVars>>
    /\ UNCHANGED thVars

\* time.sleep(30) of mainloop; self.__wait_msg_pump(timeout=300) of run().
Backoff ==
    /\ pc = "backoff"
    /\ pc' = "device"
    /\ failure' = "none"
    /\ UNCHANGED <<w32Vars, loop, vs, nopen, loopchanges, traymode, sent,
                   evals, noteVars>>
    /\ UNCHANGED thVars

\* ------------------------------------------------- main(): the whole program

\* The interfaces hid.enumerate(vid, pid) lists that __matchingdevice accepts.
Enumerated == {d \in plugged : matchingdevice(NoPath, RawName(d)).ok}

\* main() has built Win32HID(device=VoltageSwitch, vid=..., pid=...) and
\* Thermostat(**config['thermostat']) and has started the poll loop: the
\* thread of mainloop with --hidden, of TrayThermostat.run without.  The
\* thermostat has two settings a degree apart, the second one under a label
\* of ls, and a reverse hysteresis of rs; the machine has the interfaces ds;
\* the loop is one of lps.
Main(ds, ls, rs, lps) ==
    /\ \E l \in ls :
          kwargs = <<[label |-> "0v", temp |-> 1], [label |-> l, temp |-> 2]>>
    /\ fhyst = 0
    /\ rhyst \in rs
    /\ status = "ok"
    /\ tmap = BuildTmap(kwargs, Len(kwargs))
    /\ ranges = MakeRanges(Sorted(DOMAIN tmap))
    /\ upT = [i \in 1..Cardinality(DOMAIN tmap) |-> NoT]
    /\ hrange = 0
    /\ last = NoLast
    /\ temperature = 0
    /\ changes = FALSE
    /\ unchanged = None
    /\ newmode = NoCall
    /\ mode = NoCall
    /\ called = FALSE
    /\ same = FALSE
    /\ sweep = "fresh"
    /\ width = NoT
    /\ step = 0
    /\ devs = ds
    /\ plugged \in SUBSET devs
    /\ msgs = <<>>
    /\ cb = <<>>
    /\ IF Enumerated = {}
       THEN path = NoPath /\ flag = FALSE
       ELSE flag = TRUE /\ \E d \in Enumerated : path = lower(RawName(d))
    /\ owner = path
    /\ lastnote = "none"
    /\ reattached = "no"
    /\ missed = FALSE
    /\ lingered = FALSE
    /\ ignored = "none"
    /\ loop \in lps
    /\ pc = "device"
    /\ vs = <<>>
    /\ nopen = 0
    /\ loopchanges = FALSE
    /\ traymode = "Automatic"
    /\ sent = "nothing"
    /\ evals = 0
    /\ failure = "none"

\* main() with --hidden: the poll loop is mainloop.
NextHidden ==
    \/ Arrive
    \/ Remove
    \/ DeviceChangeMatch
    \/ DeviceChangeFlag
    \/ DeviceWait
    \/ DeviceOpen
    \/ Poll
    \/ SensorFails
    \/ Backoff

\* One unit of the switch; every thermostat configuration.
InitHidden == Main({Unit}, {"5v", "aux"}, {0, 1}, {"mainloop"})

SpecHidden == InitHidden /\ [][NextHidden]_vars

\* time.sleep(30) returns: the thread of the loop is scheduled again once
\* the backoff is over.
Fairness == WF_vars(Backoff)

SpecHiddenFair == SpecHidden /\ Fairness

\* Two units of the switch on the machine.
InitUnits == Main({Unit, SecondUnit}, {"5v"}, {1}, {"mainloop"})

SpecUnits == InitUnits /\ [][NextHidden]_vars

\* main() with or without --hidden: the poll loop is mainloop or
\* TrayThermostat.run.
NextMain ==
    \/ Arrive
    \/ Remove
    \/ DeviceChangeMatch
    \/ DeviceChangeFlag
    \/ DeviceWait
    \/ DeviceOpen
    \/ Poll
    \/ SensorFails
    \/ PollManual
    \/ OnCommand
    \/ Quit
    \/ Backoff

InitMain == Main({Unit}, {"5v"}, {0, 1}, {"mainloop", "run"})

SpecMain == InitMain /\ [][NextMain]_vars

\* ----------------------------------------- Win32HID.__matchingdevice alone

\* Any interface of the machine arrives, leaves or is about to leave; other
\* device types are broadcast as well.  Each message is dispatched before
\* the next one is posted.
Broadcast ==
    /\ msgs = <<>>
    /\ \E w \in {DBT_DEVICEARRIVAL, DBT_DEVICEREMOVECOMPLETE,
                  DBT_DEVICEQUERYREMOVE},
          ty \in {DBT_DEVTYP_DEVICEINTERFACE, DBT_DEVTYP_VOLUME},
          d \in Interfaces : Post(w, ty, d)
    /\ UNCHANGED <<devs, plugged, flag, path, cb, loopVars, noteVars>>
    /\ UNCHANGED thVars

NextMatch ==
    \/ Broadcast
    \/ DeviceChangeMatch
    \/ DeviceChangeFlag

\* Win32HID(vid=0x16C0, pid=0x0486) on a machine where hid.enumerate() finds
\* no interface of the device: no path cached, the event clear.
InitMatch == Blank /\ NoSession /\ kwargs = <<>> /\ fhyst = 0 /\ rhyst = 0

SpecMatch == InitMatch /\ [][NextMatch]_vars

\* ------------------------------------------------------------------ claims

\* The labels of the settings handed to the constructor.
ConfiguredLabels == {kwargs[i].label : i \in DOMAIN kwargs}

\* The distinct temperatures of the settings handed to the constructor.
ConfiguredTemps == {kwargs[i].temp : i \in DOMAIN kwargs}

\* The boundaries k0 < k1 < ... < k_last of a constructed Thermostat.
Keys == Sorted(DOMAIN tmap)

\* C1: every value mode() returns with changes=False is a configured label,
\* and every value it returns with changes=True is a configured label or the
\* `unchanged` sentinel of that call.
C1_ModeIsConfiguredLabel ==
    called =>
        IF changes THEN mode \in ConfiguredLabels \cup {unchanged}
                   ELSE mode \in ConfiguredLabels

\* What the example expects of each reading ("=" stands for the sentinel).
Expected == <<"0v", "5v", "12v", "=", "=", "5v">>

\* C2: with {0v:0, 5v:45, 12v:60}, reverse_hysteresis 5 and
\* forward_hysteresis 0, a fresh Thermostat called with changes=True on
\* 30,50,62,58,56,54 returns 0v,5v,12v,unchanged,unchanged,5v; and once the
\* high range is active the candidate stays 12v for every reading above 55
\* and leaves 12v at the first reading <= 55.
C2_Example ==
    /\ [](step >= 1 =>
            mode = IF Expected[step] = "=" THEN unchanged ELSE Expected[step])
    /\ [][(status = "ok" /\ hrange = 2) =>
            /\ temperature' > 55 => newmode' = "12v"
            /\ temperature' <= 55 => newmode' # "12v"]_vars

\* C2 witness: the six readings of the example have been fed, the last one
\* bringing the mode back to 5v.
C2_Witness == step = 6 /\ mode = "5v" /\ hrange = 3

\* C3: in a unit-step ascending sweep of a fresh Thermostat (changes=True)
\* from below k0, the first call emits a mode, and after it a mode is emitted
\* exactly at the readings k_i + forward_hysteresis (i >= 1), where it is the
\* label of k_i.
C3_MonotoneSweep ==
    /\ sweep = "start" => mode = tmap[tmin]
    /\ sweep = "up" =>
         LET hit == {i \in 2..Len(Keys) : temperature = Keys[i] + fhyst}
         IN /\ hit = {} => mode = unchanged
            /\ \A i \in hit : mode = tmap[Keys[i]]

\* C4 as stated: after an ascent has entered the range above boundary B,
\* every reading t >= B - reverse_hysteresis of the descent still gives the
\* upper range's label.
C4_HeldDownToBoundaryIncluded ==
    [][(status = "ok" /\ rhyst > 0 /\ hrange >= 2 /\ sweep' = "down"
        /\ upT[hrange] # NoT
        /\ temperature' >= ranges[hrange].low - rhyst)
       => newmode' = tmap[ranges[hrange].low]]_vars

\* C4 as amended: with reverse_hysteresis > 0 and the range above boundary B
\* active, a lower reading t keeps the upper range and its label while
\* t > B - reverse_hysteresis, and at t <= B - reverse_hysteresis selects a
\* range below B and gives that range's label.
C4_HeldAboveBoundaryMinusHyst ==
    [][(status = "ok" /\ rhyst > 0 /\ hrange >= 2 /\ called
        /\ temperature' < temperature)
       => LET B == ranges[hrange].low
          IN /\ temperature' > B - rhyst =>
                  hrange' = hrange /\ newmode' = tmap[B]
             /\ temperature' <= B - rhyst =>
                  /\ ranges[hrange'].low < B
                  /\ newmode' = tmap[ranges[hrange'].low]
                  /\ newmode' # tmap[B]]_vars

\* C4 witness: a descent has brought the reading down to boundary B or below
\* it while the range entered on the ascent is still held.
C4_Witness ==
    /\ sweep = "down" /\ rhyst > 0 /\ hrange >= 2
    /\ upT[hrange] # NoT
    /\ temperature <= ranges[hrange].low
    /\ newmode = tmap[ranges[hrange].low]

\* C5: with reverse_hysteresis > 0 and unit steps, the reading at which the
\* ascent switched into the range above B minus the reading at which the
\* descent switched out of it is forward_hysteresis + reverse_hysteresis.
C5_DeadZoneWidth ==
    (width # NoT /\ rhyst > 0) => width = fhyst + rhyst

\* C5 witness: a dead zone has been measured with both hystereses non-zero.
C5_Witness == width # NoT /\ rhyst > 0 /\ fhyst > 0

\* C6: a call with changes=True that repeats the temperature of the call
\* before it returns the sentinel.
C6_Idempotent == (same /\ changes) => mode = unchanged

\* C6 witness: a repeated reading was answered by a sentinel other than None
\* while the candidate is a label.
C6_Witness ==
    /\ same /\ changes /\ unchanged = Sentinel /\ mode = Sentinel
    /\ newmode \in ConfiguredLabels

\* C7: for every reading exactly one range's forward (entry) test holds, a
\* scan always finds a range, and the first match is the only match.
C7_ExactlyOneEntry ==
    /\ status = "ok" =>
         \A t \in Temps :
            Cardinality({i \in DOMAIN ranges : Forward(ranges[i], t)}) = 1
    /\ called => mode # StopIteration /\ hrange # 0

\* C7 witness: a scan has selected a middle range.
C7_Witness == called /\ hrange = 3 /\ ranges[3].kind = "mid"

\* C8: mode() returns the sentinel when changes is true and the candidate
\* equals the candidate of the call before, and the candidate otherwise (so
\* on the first call); the last-mode record is the candidate after every
\* call; two consecutive calls with changes=True never return the same label.
C8_Suppression ==
    [][status = "ok" =>
        /\ mode' = IF changes' /\ called /\ newmode' = newmode
                   THEN unchanged' ELSE newmode'
        /\ last' = newmode'
        /\ (called /\ changes /\ changes'
            /\ mode \in ConfiguredLabels /\ mode' \in ConfiguredLabels)
           => mode' # mode]_vars

\* C8 witness: a call with changes=True was suppressed at a temperature other
\* than that of the call before (the candidate, not the reading, repeated).
C8_Witness ==
    /\ called /\ ~same /\ changes /\ unchanged = Sentinel /\ mode = Sentinel
    /\ last = newmode /\ newmode \in ConfiguredLabels

\* C9: settings in which two labels carry the same temperature are rejected
\* by the constructor.
C9_EqualThresholdsRejected ==
    (status # "new"
     /\ \E i, j \in DOMAIN kwargs : i # j /\ kwargs[i].temp = kwargs[j].temp)
    => status = "error"

\* C10: the constructor raises exactly when the settings hold fewer than 2
\* distinct temperatures, and then no classifier exists.
C10_FewerThanTwoRejected ==
    status # "new" =>
        /\ status = "error" <=> Cardinality(ConfiguredTemps) < 2
        /\ status = "error" => (tmap = <<>> /\ ranges = <<>> /\ ~called)

\* C10 witness: several settings, all with the same temperature, were
\* rejected.
C10_Witness ==
    status = "error" /\ Len(kwargs) >= 2 /\ Cardinality(ConfiguredTemps) = 1

\* The id segment names the configured vendor and product.
Configured(d) == d.vid = VID_16C0 /\ d.pid = PID_0486

\* The name ends in the HID interface class GUID, in either case.
EndsInHidGuid(d) ==
    d.guid \in {GUID_DEVINTERFACE_HID, lower(GUID_DEVINTERFACE_HID)}

\* A step of __devicechange that hands the name of interface d to
\* __matchingdevice.
Matching(d) ==
    /\ cb = <<>>
    /\ msgs # <<>>
    /\ msgs' = Tail(msgs)
    /\ Head(msgs).devicetype = DBT_DEVTYP_DEVICEINTERFACE
    /\ Head(msgs).dev = d

\* C17: __matchingdevice accepts (and caches) every full interface name
\* whose id segment has the configured vid and pid and no interface field
\* or MI_00, and it rejects every name with another interface index, with
\* another vid or pid, or without the HID interface GUID at its end.
C17_IdentityMatching ==
    [][\A d \in Interfaces : Matching(d) =>
          /\ (d.full /\ Configured(d) /\ EndsInHidGuid(d)
                 /\ d.mi \in {Missing, MI_00})
             => path' = lower(RawName(d))
          /\ (d.mi \in {MI_01, MI_02} \/ ~Configured(d) \/ ~EndsInHidGuid(d))
             => path' = path /\ path' # lower(RawName(d)) /\ cb' = <<>>]_vars

\* An arrival of the MI_00 interface of the configured device was accepted.
C17_Witness ==
    /\ cb # <<>>
    /\ cb[1].dev.mi = MI_00
    /\ cb[1].wParam = DBT_DEVICEARRIVAL
    /\ path = lower(RawName(cb[1].dev))

\* C11: once __devicechange has handled a matching detach notification, and
\* until it has handled a matching attach notification, device() returns no
\* handle (it blocks or raises), however the notification callback and the
\* call of device() by the poll thread interleave.
C11_NoHandleWhileDetached ==
    [][(lastnote = "detach" /\ pc = "open") => vs' = <<>>]_vars

\* C12: after a matching detach and then attach have been handled, the
\* loop makes no evaluation with changes=True on the handle it opened before
\* the detach: the next evaluation is one with changes=False on a handle
\* opened on the re-attached device.
C12_ForceApplyAfterReattach == ~missed

\* C13: in every session the first evaluation after device() returned a
\* handle is made with changes=False and yields a configured mode for the
\* switch, whatever the reading and the earlier history of the Thermostat.
C13_FirstEvaluationWrites ==
    evals = 1 => ~changes /\ mode \in ConfiguredLabels

\* C14: once the session is Absent (the event is clear) and the handle the
\* loop holds has stopped working, the next poll leaves the inner loop, with
\* the handle closed: the loop does not go on polling on the old handle.
C14_LeavesInnerLoopWhenAbsent == ~lingered

\* __devicechange is handed the removal of interface d.
Detaching(d) == Matching(d) /\ Head(msgs).wParam = DBT_DEVICEREMOVECOMPLETE

\* C15: while the session is Present, a detach notification whose path is
\* not the cached path (another device, or a second unit with the same vid
\* and pid) is rejected: it leaves the cached path alone and no clear()
\* follows; a detach notification in state Absent changes nothing.
C15_DetachOnlyForCachedPath ==
    [][\A d \in devs :
          /\ (Detaching(d) /\ flag /\ lower(RawName(d)) # path)
             => path' = path /\ cb' = <<>>
          /\ (Detaching(d) /\ ~flag /\ lower(RawName(d)) = path)
             => path' = path /\ flag' = flag]_vars

\* C16: when opening the device or writing to it fails while the session is
\* Present, the session becomes Absent: attached() is false afterwards.
C16_FailureMakesAbsent ==
    [][(flag /\ failure = "none" /\ failure' \in {"open", "write"})
          => ~flag']_vars

\* C18: in mainloop every failure of a cycle (failed open, failed write,
\* sensor failure, unknown mode label) is caught: the loop never ends, the
\* failure is followed by the backoff wait, the backoff by nothing but the
\* next call of device(), and that call eventually comes.
C18_FailuresCaught ==
    /\ [](loop = "mainloop" => pc # "returned")
    /\ [][(failure = "none" /\ failure' # "none")
             => pc' = "backoff" /\ vs' = <<>>]_vars
    /\ [][pc = "backoff" => pc' \in {"backoff", "device"}]_vars
    /\ (failure # "none" ~> (pc = "device" /\ failure = "none"))

\* The loop is in its backoff wait after the switch did not know the label.
C18_Witness == loop = "mainloop" /\ pc = "backoff" /\ failure = "key"

\* C19: the poll thread sees the event and the cached path as one pair:
\* when device() reads self.__path after wait() has returned, the path is
\* the one that was cached when the event was last set, so every handle is
\* opened on the device that made the session Present.
C19_FlagAndPathAtomic ==
    [][(pc = "open" /\ pc' # "open") => path = owner]_vars

\* C20: a poll loop never has more than one device handle open, and none
\* while it is about to acquire the device, inside device(), in its wait
\* after a failure or a break, or after it has returned.
C20_HandleScoped ==
    /\ nopen <= 1
    /\ pc # "poll" => nopen = 0

\* run() has left the inner loop through `break` because the session was
\* Absent, and the handle is closed.
C20_Witness ==
    /\ loop = "run"
    /\ pc = "backoff"
    /\ failure = "break"
    /\ called
    /\ nopen = 0

\* ------------------------------------------------- claims: the active range

\* The reverse test of range i holds for reading t (hasmode of line 99).
StillHolds(i, t) == i # 0 /\ Reverse(ranges[i], t)[2]

\* C21: when a range is active and its reverse test holds for the reading,
\* mode() leaves the active range as it is and its candidate is the label of
\* that range, whatever the entry tests say; the active range changes only
\* on a call for which the reverse test of the active range is false.
C21_StickyBand ==
    /\ [][StillHolds(hrange, temperature') =>
             /\ hrange' = hrange
             /\ newmode' = tmap[ranges[hrange].low]]_vars
    /\ [][hrange' # hrange => ~StillHolds(hrange, temperature')]_vars

\* C21 witness: a call kept the active range, with its label as candidate,
\* at a reading for which the entry test of another range holds.
C21_Witness ==
    /\ called
    /\ StillHolds(hrange, temperature)
    /\ Scan(temperature) # 0
    /\ Scan(temperature) # hrange
    /\ newmode = tmap[ranges[hrange].low]

\* Range i is a cooler one than range j: its label is the mode of a lower
\* threshold (keys = sorted(self.__tmap.keys())).
Cooler(i, j) == ranges[i].low < ranges[j].low

\* C23: after every call of mode(t) the active range is not a cooler one
\* than the range whose entry test holds for t, and the candidate is the
\* label of the active range, so never a cooler mode than t alone would
\* give; a call whose reading has risen into the entry range of a hotter
\* range makes that range active, with its label as candidate, on that call.
C23_HeatingNeverDelayed ==
    /\ [](called =>
             /\ hrange # 0
             /\ Scan(temperature) # 0
             /\ ~Cooler(hrange, Scan(temperature))
             /\ newmode = tmap[ranges[hrange].low])
    /\ [][(hrange # 0 /\ Scan(temperature') # 0
              /\ Cooler(hrange, Scan(temperature'))) =>
             /\ hrange' = Scan(temperature')
             /\ newmode' = tmap[ranges[hrange'].low]]_vars

\* ------------------------------------------- claims: foreign notifications

\* C22: the arrival or removal of an interface whose name does not match
\* the configured identity leaves the event and the cached path of Win32HID
\* as they are, with no set() or clear() to follow, whatever the state of
\* the session; and the event goes from clear to set only when
\* __devicechange handles the arrival of an interface that matches.
C22_ForeignNotificationIgnored ==
    /\ [][\A d \in Interfaces :
             (Matching(d) /\ Foreign(Head(msgs)))
             => flag' = flag /\ path' = path /\ cb' = <<>>]_vars
    /\ [][(~flag /\ flag') =>
             /\ cb # <<>>
             /\ cb[1].wParam = DBT_DEVICEARRIVAL
             /\ Identity(cb[1].dev)]_vars

\* C22 witness: the arrival or removal of a foreign interface was handled
\* while the session was Present, and the session is Present with its path
\* cached.
C22_Witness ==
    /\ ignored = "set"
    /\ flag
    /\ path # NoPath
    /\ lastnote = "attach"
    /\ msgs = <<>>
    /\ cb = <<>>

====
